---- MODULE Spec2Model ----
(***************************************************************************)
(* Model of the naga node-graph application (src/src/app.rs): the typed    *)
(* value union, the node templates, the graph store the application drives *)
(* (crate::graph_ui::graph, modelled from its contract), the per-frame     *)
(* update handler and the recursive memoizing evaluator.                   *)
(***************************************************************************)
EXTENDS Integers, Sequences, FiniteSets, TLC

\* ------------------------------------------------------------------ bounds
\* Total number of nodes ever created (node ids are never reused).
MaxNodes == 3
\* Number of connections the graph may hold.
MaxConnects == 3
\* Number of inputs that may hold an edited (non-default) inline constant.
MaxEdits == 3
\* Inline scalar constants an edit may set range over 0..MaxScalar.
MaxScalar == 3
\* Coordinates of inline vector constants an edit may set range over 0..MaxCoord.
MaxCoord == 1
\* Number of edited inline constants in SpecTwice.
MaxTwiceEdits == 1
\* Number of evaluations of one graph SpecTwice records.
MaxSeen == 3

\* Scalar payloads SpecCast casts range over -MaxCastScalar..MaxCastScalar.
MaxCastScalar == 8
\* Vector coordinates SpecCast casts range over -MaxCastCoord..MaxCastCoord.
MaxCastCoord == 3

\* ------------------------------------------------------- values (MyValueType)
\* A JSON document as the evaluator builds it: an object whose only possible
\* keys are "text", "header" and "body"; a key is present iff its field holds
\* a one-element sequence.
EmptyDoc == [text |-> <<>>, header |-> <<>>, body |-> <<>>]

Scalar(v) == [tag |-> "Scalar", num |-> <<v>>, doc |-> <<>>, text |-> ""]
Vec2(x, y) == [tag |-> "Vec2", num |-> <<x, y>>, doc |-> <<>>, text |-> ""]
Widget(d) == [tag |-> "Widget", num |-> <<>>, doc |-> <<d>>, text |-> ""]
Text(s) == [tag |-> "Text", num |-> <<>>, doc |-> <<>>, text |-> s]

\* impl Default for MyValueType
DefaultValue == Scalar(0)

\* Option<T>
None == <<>>
Some(x) == <<x>>

\* anyhow::Error values the evaluator can return
NoError == [kind |-> "none", node |-> 0, name |-> "", from |-> <<>>, to |-> ""]
InvalidCast(v, target) ==
    [kind |-> "InvalidCast", node |-> 0, name |-> "", from |-> <<v>>, to |-> target]
NoParameterNamed(node_id, name) ==
    [kind |-> "NoParameterNamed", node |-> node_id, name |-> name, from |-> <<>>, to |-> ""]

\* egui::Vec2 arithmetic
VecAdd(a, b) == <<a[1] + b[1], a[2] + b[2]>>
VecSub(a, b) == <<a[1] - b[1], a[2] - b[2]>>
VecScale(a, s) == <<a[1] * s, a[2] * s>>

try_to_vec2(v) ==
    IF v.tag = "Vec2"
    THEN [ok |-> TRUE, value |-> v.num, err |-> NoError]
    ELSE [ok |-> FALSE, value |-> <<0, 0>>, err |-> InvalidCast(v, "vec2")]

\* Variant: a vector is read as a scalar through its first coordinate
try_to_scalar_coercing(v) ==
    IF v.tag = "Scalar"
    THEN [ok |-> TRUE, value |-> v.num[1], err |-> NoError]
    ELSE IF v.tag = "Vec2"
    THEN [ok |-> TRUE, value |-> v.num[1], err |-> NoError]
    ELSE [ok |-> FALSE, value |-> 0, err |-> InvalidCast(v, "scalar")]

try_to_scalar(v) ==
    IF v.tag = "Scalar"
    THEN [ok |-> TRUE, value |-> v.num[1], err |-> NoError]
    ELSE [ok |-> FALSE, value |-> 0, err |-> InvalidCast(v, "scalar")]

\* ------------------------------------------------------------ templates
Templates ==
    {"MakeScalar", "AddScalar", "SubtractScalar", "MakeVector", "AddVector",
     "SubtractVector", "VectorTimesScalar", "Scaffold", "Text"}

\* ------------------------------------------------------------ graph store
EmptyMap == [x \in {} |-> 0]

EmptyGraph ==
    [nodes |-> EmptyMap, inputs |-> EmptyMap, outputs |-> EmptyMap,
     connections |-> EmptyMap,
     next_node |-> 1, next_input |-> 1, next_output |-> 1]

add_input_param(g, node_id, name, typ, value) ==
    LET input_id == g.next_input IN
    [g EXCEPT
        !.inputs = @ @@ (input_id :>
            [id |-> input_id, typ |-> typ, value |-> value, node |-> node_id]),
        !.nodes[node_id].inputs = Append(@, <<name, input_id>>),
        !.next_input = @ + 1]

add_output_param(g, node_id, name, typ) ==
    LET output_id == g.next_output IN
    [g EXCEPT
        !.outputs = @ @@ (output_id :>
            [id |-> output_id, node |-> node_id, typ |-> typ]),
        !.nodes[node_id].outputs = Append(@, <<name, output_id>>),
        !.next_output = @ + 1]

\* Variant: a name that is not found yields the node's first parameter
FindParam_fallback(params, name) ==
    LET hits == {k \in 1..Len(params) : params[k][1] = name} IN
    IF hits = {}
    THEN IF params = <<>> THEN [ok |-> FALSE, id |-> 0] ELSE [ok |-> TRUE, id |-> params[1][2]]
    ELSE [ok |-> TRUE,
          id |-> params[CHOOSE k \in hits : \A j \in hits : k <= j][2]]

\* Node::get_input / Node::get_output: the first parameter carrying the name
FindParam(params, name) ==
    LET hits == {k \in 1..Len(params) : params[k][1] = name} IN
    IF hits = {}
    THEN [ok |-> FALSE, id |-> 0]
    ELSE [ok |-> TRUE,
          id |-> params[CHOOSE k \in hits : \A j \in hits : k <= j][2]]

get_input(g, node_id, name) ==
    LET r == FindParam(g.nodes[node_id].inputs, name) IN
    [ok |-> r.ok, id |-> r.id,
     err |-> IF r.ok THEN NoError ELSE NoParameterNamed(node_id, name)]

get_output(g, node_id, name) ==
    LET r == FindParam(g.nodes[node_id].outputs, name) IN
    [ok |-> r.ok, id |-> r.id,
     err |-> IF r.ok THEN NoError ELSE NoParameterNamed(node_id, name)]

connection(g, input_id) ==
    IF input_id \in DOMAIN g.connections
    THEN Some(g.connections[input_id])
    ELSE None

\* Nodes that consume, through one connection, an output of a node in S
Consumers(g, S) ==
    {g.inputs[i].node : i \in {j \in DOMAIN g.connections \cap DOMAIN g.inputs :
                                  /\ g.connections[j] \in DOMAIN g.outputs
                                  /\ g.outputs[g.connections[j]].node \in S}}

RECURSIVE Downstream(_, _)
Downstream(g, S) ==
    LET S2 == S \cup Consumers(g, S) IN
    IF S2 = S THEN S ELSE Downstream(g, S2)

\* The new edge runs from the owner of output_id to the owner of input_id; it
\* closes a cycle when the former is already downstream of the latter.
would_close_cycle(g, output_id, input_id) ==
    LET rest == [g EXCEPT !.connections =
                    [j \in DOMAIN g.connections \ {input_id} |-> g.connections[j]]]
    IN g.outputs[output_id].node \in Downstream(rest, {g.inputs[input_id].node})

\* Variant: the connection is installed without the cycle test
add_connection_unchecked(g, output_id, input_id) ==
    [g EXCEPT !.connections =
        [j \in DOMAIN g.connections \cup {input_id} |->
            IF j = input_id THEN output_id ELSE g.connections[j]]]

\* Variant: an input that is already connected keeps its connection
add_connection_keep_first(g, output_id, input_id) ==
    IF would_close_cycle(g, output_id, input_id) \/ input_id \in DOMAIN g.connections
    THEN g
    ELSE [g EXCEPT !.connections =
            [j \in DOMAIN g.connections \cup {input_id} |->
                IF j = input_id THEN output_id ELSE g.connections[j]]]

add_connection(g, output_id, input_id) ==
    IF would_close_cycle(g, output_id, input_id)
    THEN g
    ELSE [g EXCEPT !.connections =
            [j \in DOMAIN g.connections \cup {input_id} |->
                IF j = input_id THEN output_id ELSE g.connections[j]]]

\* Variant: the connections of the removed node's parameters are left behind
remove_node_keep_connections(g, node_id) ==
    LET ins == {g.nodes[node_id].inputs[k][2] : k \in 1..Len(g.nodes[node_id].inputs)}
        outs == {g.nodes[node_id].outputs[k][2] : k \in 1..Len(g.nodes[node_id].outputs)}
    IN [g EXCEPT
        !.inputs = [j \in DOMAIN g.inputs \ ins |-> g.inputs[j]],
        !.outputs = [j \in DOMAIN g.outputs \ outs |-> g.outputs[j]],
        !.nodes = [n \in DOMAIN g.nodes \ {node_id} |-> g.nodes[n]]]

remove_node(g, node_id) ==
    LET ins == {g.nodes[node_id].inputs[k][2] : k \in 1..Len(g.nodes[node_id].inputs)}
        outs == {g.nodes[node_id].outputs[k][2] : k \in 1..Len(g.nodes[node_id].outputs)}
        keep == {j \in DOMAIN g.connections :
                    j \notin ins /\ g.connections[j] \notin outs}
    IN [g EXCEPT
        !.connections = [j \in keep |-> g.connections[j]],
        !.inputs = [j \in DOMAIN g.inputs \ ins |-> g.inputs[j]],
        !.outputs = [j \in DOMAIN g.outputs \ outs |-> g.outputs[j]],
        !.nodes = [n \in DOMAIN g.nodes \ {node_id} |-> g.nodes[n]]]

\* ------------------------------------------------- MyNodeTemplate::build_node
input_scalar_param(g, node_id, name) ==
    add_input_param(g, node_id, name, "Scalar", Scalar(0))
input_vector_param(g, node_id, name) ==
    add_input_param(g, node_id, name, "Vec2", Vec2(0, 0))
\* Variant: a Widget input is created with the dummy default value
input_widget_param_dummy(g, node_id, name) ==
    add_input_param(g, node_id, name, "Widget", DefaultValue)

input_widget_param(g, node_id, name) ==
    add_input_param(g, node_id, name, "Widget", Widget(EmptyDoc))
output_scalar_param(g, node_id, name) == add_output_param(g, node_id, name, "Scalar")
output_vector_param(g, node_id, name) == add_output_param(g, node_id, name, "Vec2")
output_widget_param(g, node_id, name) == add_output_param(g, node_id, name, "Widget")

build_node(g, template, node_id) ==
    CASE template = "AddScalar" ->
            output_scalar_param(
                input_scalar_param(
                    add_input_param(g, node_id, "A", "Scalar", Scalar(0)),
                    node_id, "B"),
                node_id, "out")
      [] template = "SubtractScalar" ->
            output_scalar_param(
                input_scalar_param(input_scalar_param(g, node_id, "A"), node_id, "B"),
                node_id, "out")
      [] template = "VectorTimesScalar" ->
            output_vector_param(
                input_vector_param(input_scalar_param(g, node_id, "scalar"),
                                   node_id, "vector"),
                node_id, "out")
      [] template = "AddVector" ->
            output_vector_param(
                input_vector_param(input_vector_param(g, node_id, "v1"), node_id, "v2"),
                node_id, "out")
      [] template = "SubtractVector" ->
            output_vector_param(
                input_vector_param(input_vector_param(g, node_id, "v1"), node_id, "v2"),
                node_id, "out")
      [] template = "MakeVector" ->
            output_vector_param(
                input_scalar_param(input_scalar_param(g, node_id, "x"), node_id, "y"),
                node_id, "out")
      [] template = "MakeScalar" ->
            output_scalar_param(input_scalar_param(g, node_id, "value"), node_id, "out")
      [] template = "Scaffold" ->
            output_widget_param(
                input_widget_param(input_widget_param(g, node_id, "body"),
                                   node_id, "header"),
                node_id, "widget")
      [] template = "Text" ->
            output_widget_param(
                add_input_param(g, node_id, "text", "Text", Text("")),
                node_id, "widget")

\* Graph::add_node with the closure the application passes (build_node)
add_node(g, template) ==
    LET node_id == g.next_node
        g1 == [g EXCEPT
                !.nodes = @ @@ (node_id :>
                    [id |-> node_id, inputs |-> <<>>, outputs |-> <<>>,
                     user_data |-> [template |-> template]]),
                !.next_node = @ + 1]
    IN build_node(g1, template, node_id)

\* ------------------------------------------------------------- evaluator
\* The mutable state one evaluate_node call threads through its recursion:
\* the outputs cache, and three observations of the run: the nodes whose
\* evaluation was entered (in order), every input resolution evaluate_input
\* returned (in order), and the deepest nesting of evaluate_node reached.
EmptyCtx == [cache |-> EmptyMap, evals |-> <<>>, inputs |-> <<>>, depth |-> 0]

\* Outcomes: "ok" (Ok(value)), "err" (Err(err)), "panic" (an index or expect
\* abort), "overflow" (recursion that never returns: the stack is exhausted).
Ok(value, ctx) == [status |-> "ok", value |-> value, err |-> NoError, ctx |-> ctx]
Err(err, ctx) == [status |-> "err", value |-> DefaultValue, err |-> err, ctx |-> ctx]
Panic(ctx) == [status |-> "panic", value |-> DefaultValue, err |-> NoError, ctx |-> ctx]
Overflow(ctx) == [status |-> "overflow", value |-> DefaultValue, err |-> NoError, ctx |-> ctx]
Propagate(r) == [status |-> r.status, value |-> DefaultValue, err |-> r.err, ctx |-> r.ctx]

Max(a, b) == IF a >= b THEN a ELSE b

\* Variant: the value is returned without being entered into the cache
populate_output_uncached(g, ctx, node_id, param_name, value) ==
    LET r == get_output(g, node_id, param_name) IN
    IF ~r.ok
    THEN Err(r.err, ctx)
    ELSE Ok(value, ctx)

populate_output(g, ctx, node_id, param_name, value) ==
    LET r == get_output(g, node_id, param_name) IN
    IF ~r.ok
    THEN Err(r.err, ctx)
    ELSE Ok(value, [ctx EXCEPT !.cache =
                [o \in DOMAIN ctx.cache \cup {r.id} |->
                    IF o = r.id THEN value ELSE ctx.cache[o]]])

RECURSIVE evaluate_node(_, _, _, _)

\* The steps of evaluate_input, last first. Each step receives what the steps
\* before it computed, as the function's local bindings do.

\* ... after the recursive evaluate_node call `up` on the connected output's node
resolve_evaluated(other_output_id, up) ==
    IF up.status # "ok"
    THEN Propagate(up)
    ELSE IF other_output_id \in DOMAIN up.ctx.cache
    THEN Ok(up.ctx.cache[other_output_id], up.ctx)
    ELSE Panic(up.ctx)

\* Variant: the recursion descends into a node the output feeds instead of
\* the node that owns it
resolve_connected_downstream(g, other_output_id, ctx, depth) ==
    IF other_output_id \in DOMAIN ctx.cache
    THEN Ok(ctx.cache[other_output_id], ctx)
    ELSE IF other_output_id \notin DOMAIN g.outputs
    THEN Panic(ctx)
    ELSE resolve_evaluated(other_output_id,
            evaluate_node(g,
                g.inputs[CHOOSE i \in DOMAIN g.connections :
                            g.connections[i] = other_output_id].node,
                ctx, depth + 1))

\* Variant: the upstream node is evaluated even when the cache holds its output
resolve_connected_recompute(g, other_output_id, ctx, depth) ==
    IF other_output_id \notin DOMAIN g.outputs
    THEN Panic(ctx)
    ELSE resolve_evaluated(other_output_id,
            evaluate_node(g, g.outputs[other_output_id].node, ctx, depth + 1))

\* ... the input is connected to other_output_id
resolve_connected(g, other_output_id, ctx, depth) ==
    IF other_output_id \in DOMAIN ctx.cache
    THEN Ok(ctx.cache[other_output_id], ctx)
    ELSE IF other_output_id \notin DOMAIN g.outputs
    THEN Panic(ctx)
    ELSE resolve_evaluated(other_output_id,
            evaluate_node(g, g.outputs[other_output_id].node, ctx, depth + 1))

\* ... after get_input returned r
resolve_found(g, r, ctx, depth) ==
    IF ~r.ok
    THEN Err(r.err, ctx)
    ELSE IF connection(g, r.id) # None
    THEN resolve_connected(g, connection(g, r.id)[1], ctx, depth)
    ELSE IF r.id \notin DOMAIN g.inputs
    THEN Panic(ctx)
    ELSE Ok(g.inputs[r.id].value, ctx)

\* Variant: the inline constant is taken even when the input is connected
resolve_input_inline(g, node_id, param_name, ctx, depth) ==
    LET r == get_input(g, node_id, param_name) IN
    IF ~r.ok
    THEN Err(r.err, ctx)
    ELSE IF r.id \notin DOMAIN g.inputs
    THEN Panic(ctx)
    ELSE Ok(g.inputs[r.id].value, ctx)

\* evaluate_input without the observation of its outcome
resolve_input(g, node_id, param_name, ctx, depth) ==
    resolve_found(g, get_input(g, node_id, param_name), ctx, depth)

\* The outcome r of resolving an input, entered into the observations
observed(r, node_id, param_name) ==
    [r EXCEPT !.ctx.inputs = Append(@,
        [node |-> node_id, name |-> param_name, status |-> r.status,
         value |-> r.value])]

evaluate_input(g, node_id, param_name, ctx, depth) ==
    observed(resolve_input(g, node_id, param_name, ctx, depth), node_id, param_name)

\* `?` followed by the cast: the payload is returned in .value
cast_vec2(r) ==
    IF r.status # "ok"
    THEN Propagate(r)
    ELSE LET c == try_to_vec2(r.value) IN
         IF c.ok THEN Ok(c.value, r.ctx) ELSE Err(c.err, r.ctx)

cast_scalar(r) ==
    IF r.status # "ok"
    THEN Propagate(r)
    ELSE LET c == try_to_scalar(r.value) IN
         IF c.ok THEN Ok(c.value, r.ctx) ELSE Err(c.err, r.ctx)

input_vector(g, node_id, name, ctx, depth) ==
    cast_vec2(evaluate_input(g, node_id, name, ctx, depth))

input_scalar(g, node_id, name, ctx, depth) ==
    cast_scalar(evaluate_input(g, node_id, name, ctx, depth))

\* The match of input_widget / input_text over the outcome x: Result<_, i32>,
\* .code being the Err code (0 when Ok). An abort is not a value and passes.
match_widget(x) ==
    IF x.status \in {"panic", "overflow"}
    THEN [status |-> x.status, code |-> 0, value |-> EmptyDoc, ctx |-> x.ctx]
    ELSE IF x.status = "ok"
    THEN CASE x.value.tag = "Vec2" ->
                [status |-> "err", code |-> 1, value |-> EmptyDoc, ctx |-> x.ctx]
           [] x.value.tag = "Scalar" ->
                [status |-> "err", code |-> 2, value |-> EmptyDoc, ctx |-> x.ctx]
           [] x.value.tag = "Widget" ->
                [status |-> "ok", code |-> 0, value |-> x.value.doc[1], ctx |-> x.ctx]
           [] x.value.tag = "Text" ->
                [status |-> "err", code |-> 4, value |-> EmptyDoc, ctx |-> x.ctx]
    ELSE [status |-> "err", code |-> 3, value |-> EmptyDoc, ctx |-> x.ctx]

match_text(x) ==
    IF x.status \in {"panic", "overflow"}
    THEN [status |-> x.status, code |-> 0, value |-> "", ctx |-> x.ctx]
    ELSE IF x.status = "ok"
    THEN CASE x.value.tag = "Vec2" ->
                [status |-> "err", code |-> 1, value |-> "", ctx |-> x.ctx]
           [] x.value.tag = "Scalar" ->
                [status |-> "err", code |-> 2, value |-> "", ctx |-> x.ctx]
           [] x.value.tag = "Text" ->
                [status |-> "ok", code |-> 0, value |-> x.value.text, ctx |-> x.ctx]
           [] x.value.tag = "Widget" ->
                [status |-> "err", code |-> 4, value |-> "", ctx |-> x.ctx]
    ELSE [status |-> "err", code |-> 3, value |-> "", ctx |-> x.ctx]

input_widget(g, node_id, name, ctx, depth) ==
    match_widget(evaluate_input(g, node_id, name, ctx, depth))

input_text(g, node_id, name, ctx, depth) ==
    match_text(evaluate_input(g, node_id, name, ctx, depth))

output_vector(g, ctx, node_id, name, value) ==
    populate_output(g, ctx, node_id, name, Vec2(value[1], value[2]))
output_scalar(g, ctx, node_id, name, value) ==
    populate_output(g, ctx, node_id, name, Scalar(value))
output_widget(g, ctx, node_id, name, value) ==
    populate_output(g, ctx, node_id, name, Widget(value))

\* The match arms of evaluate_node, one per template. An arm eval_T evaluates
\* its first input, eval_T_2 goes on with the second, eval_T_out with the
\* output; a, b are the outcomes of the inputs in the order of evaluation.
eval_AddScalar_out(g, node_id, a, b) ==
    IF b.status # "ok" THEN Propagate(b) ELSE
    output_scalar(g, b.ctx, node_id, "out", a.value + b.value)
eval_AddScalar_2(g, node_id, depth, a) ==
    IF a.status # "ok" THEN Propagate(a) ELSE
    eval_AddScalar_out(g, node_id, a, input_scalar(g, node_id, "B", a.ctx, depth))
eval_AddScalar(g, node_id, ctx, depth) ==
    eval_AddScalar_2(g, node_id, depth, input_scalar(g, node_id, "A", ctx, depth))

\* Variant: the operands of the subtraction are exchanged
eval_SubtractScalar_out_swapped(g, node_id, a, b) ==
    IF b.status # "ok" THEN Propagate(b) ELSE
    output_scalar(g, b.ctx, node_id, "out", b.value - a.value)

eval_SubtractScalar_out(g, node_id, a, b) ==
    IF b.status # "ok" THEN Propagate(b) ELSE
    output_scalar(g, b.ctx, node_id, "out", a.value - b.value)
eval_SubtractScalar_2(g, node_id, depth, a) ==
    IF a.status # "ok" THEN Propagate(a) ELSE
    eval_SubtractScalar_out(g, node_id, a, input_scalar(g, node_id, "B", a.ctx, depth))
eval_SubtractScalar(g, node_id, ctx, depth) ==
    eval_SubtractScalar_2(g, node_id, depth, input_scalar(g, node_id, "A", ctx, depth))

eval_VectorTimesScalar_out(g, node_id, scalar, vector) ==
    IF vector.status # "ok" THEN Propagate(vector) ELSE
    output_vector(g, vector.ctx, node_id, "out", VecScale(vector.value, scalar.value))
eval_VectorTimesScalar_2(g, node_id, depth, scalar) ==
    IF scalar.status # "ok" THEN Propagate(scalar) ELSE
    eval_VectorTimesScalar_out(g, node_id, scalar,
        input_vector(g, node_id, "vector", scalar.ctx, depth))
eval_VectorTimesScalar(g, node_id, ctx, depth) ==
    eval_VectorTimesScalar_2(g, node_id, depth,
        input_scalar(g, node_id, "scalar", ctx, depth))

eval_AddVector_out(g, node_id, v1, v2) ==
    IF v2.status # "ok" THEN Propagate(v2) ELSE
    output_vector(g, v2.ctx, node_id, "out", VecAdd(v1.value, v2.value))
eval_AddVector_2(g, node_id, depth, v1) ==
    IF v1.status # "ok" THEN Propagate(v1) ELSE
    eval_AddVector_out(g, node_id, v1, input_vector(g, node_id, "v2", v1.ctx, depth))
eval_AddVector(g, node_id, ctx, depth) ==
    eval_AddVector_2(g, node_id, depth, input_vector(g, node_id, "v1", ctx, depth))

eval_SubtractVector_out(g, node_id, v1, v2) ==
    IF v2.status # "ok" THEN Propagate(v2) ELSE
    output_vector(g, v2.ctx, node_id, "out", VecSub(v1.value, v2.value))
eval_SubtractVector_2(g, node_id, depth, v1) ==
    IF v1.status # "ok" THEN Propagate(v1) ELSE
    eval_SubtractVector_out(g, node_id, v1, input_vector(g, node_id, "v2", v1.ctx, depth))
eval_SubtractVector(g, node_id, ctx, depth) ==
    eval_SubtractVector_2(g, node_id, depth, input_vector(g, node_id, "v1", ctx, depth))

eval_MakeVector_out(g, node_id, x, y) ==
    IF y.status # "ok" THEN Propagate(y) ELSE
    output_vector(g, y.ctx, node_id, "out", <<x.value, y.value>>)
eval_MakeVector_2(g, node_id, depth, x) ==
    IF x.status # "ok" THEN Propagate(x) ELSE
    eval_MakeVector_out(g, node_id, x, input_scalar(g, node_id, "y", x.ctx, depth))
eval_MakeVector(g, node_id, ctx, depth) ==
    eval_MakeVector_2(g, node_id, depth, input_scalar(g, node_id, "x", ctx, depth))

eval_MakeScalar_out(g, node_id, value) ==
    IF value.status # "ok" THEN Propagate(value) ELSE
    output_scalar(g, value.ctx, node_id, "out", value.value)
eval_MakeScalar(g, node_id, ctx, depth) ==
    eval_MakeScalar_out(g, node_id, input_scalar(g, node_id, "value", ctx, depth))

eval_Scaffold_out(g, node_id, header, body) ==
    IF body.status \in {"panic", "overflow"}
    THEN [status |-> body.status, value |-> DefaultValue, err |-> NoError,
          ctx |-> body.ctx]
    ELSE
    LET r0 == EmptyDoc
        r1 == IF header.status = "ok" THEN [r0 EXCEPT !.header = <<header.value>>] ELSE r0
        r2 == IF body.status = "ok" THEN [r1 EXCEPT !.body = <<body.value>>] ELSE r1
    IN output_widget(g, body.ctx, node_id, "widget", r2)
\* Variant: a header that fails to resolve fails the node (as `?` would)
eval_Scaffold_2_strict(g, node_id, depth, header) ==
    IF header.status # "ok"
    THEN [status |-> header.status, value |-> DefaultValue,
          err |-> InvalidCast(DefaultValue, "widget"), ctx |-> header.ctx]
    ELSE eval_Scaffold_out(g, node_id, header,
            input_widget(g, node_id, "body", header.ctx, depth))

eval_Scaffold_2(g, node_id, depth, header) ==
    IF header.status \in {"panic", "overflow"}
    THEN [status |-> header.status, value |-> DefaultValue, err |-> NoError,
          ctx |-> header.ctx]
    ELSE eval_Scaffold_out(g, node_id, header,
            input_widget(g, node_id, "body", header.ctx, depth))
eval_Scaffold(g, node_id, ctx, depth) ==
    eval_Scaffold_2(g, node_id, depth, input_widget(g, node_id, "header", ctx, depth))

eval_Text_out(g, node_id, text) ==
    IF text.status \in {"panic", "overflow"}
    THEN [status |-> text.status, value |-> DefaultValue, err |-> NoError,
          ctx |-> text.ctx]
    ELSE
    LET r0 == [EmptyDoc EXCEPT !.text = <<"">>]
        r1 == IF text.status = "ok" THEN [r0 EXCEPT !.text = <<text.value>>] ELSE r0
    IN output_widget(g, text.ctx, node_id, "widget", r1)
eval_Text(g, node_id, ctx, depth) ==
    eval_Text_out(g, node_id, input_text(g, node_id, "text", ctx, depth))

\* The match of evaluate_node over the node's template
dispatch(g, node_id, c, depth) ==
    LET template == g.nodes[node_id].user_data.template IN
    CASE template = "AddScalar" -> eval_AddScalar(g, node_id, c, depth)
      [] template = "SubtractScalar" -> eval_SubtractScalar(g, node_id, c, depth)
      [] template = "VectorTimesScalar" -> eval_VectorTimesScalar(g, node_id, c, depth)
      [] template = "AddVector" -> eval_AddVector(g, node_id, c, depth)
      [] template = "SubtractVector" -> eval_SubtractVector(g, node_id, c, depth)
      [] template = "MakeVector" -> eval_MakeVector(g, node_id, c, depth)
      [] template = "MakeScalar" -> eval_MakeScalar(g, node_id, c, depth)
      [] template = "Scaffold" -> eval_Scaffold(g, node_id, c, depth)
      [] template = "Text" -> eval_Text(g, node_id, c, depth)

\* Variant: the node's outputs are entered into the cache with the default
\* value before its inputs are evaluated
evaluate_node_placeholder(g, node_id, ctx, depth) ==
    IF node_id \notin DOMAIN g.nodes
    THEN Panic(ctx)
    ELSE IF depth > Cardinality(DOMAIN g.nodes)
    THEN Overflow(ctx)
    ELSE dispatch(g, node_id,
            [ctx EXCEPT !.evals = Append(@, node_id), !.depth = Max(@, depth),
                        !.cache = [o \in DOMAIN ctx.cache
                                        \cup {g.nodes[node_id].outputs[k][2] :
                                                k \in 1..Len(g.nodes[node_id].outputs)} |->
                                    IF o \in DOMAIN ctx.cache THEN ctx.cache[o]
                                    ELSE DefaultValue]],
            depth)

evaluate_node(g, node_id, ctx, depth) ==
    IF node_id \notin DOMAIN g.nodes
    THEN Panic(ctx)
    ELSE IF depth > Cardinality(DOMAIN g.nodes)
    THEN Overflow(ctx)
    ELSE dispatch(g, node_id,
            [ctx EXCEPT !.evals = Append(@, node_id), !.depth = Max(@, depth)],
            depth)

\* ------------------------------------------------------------ application
VARIABLES
    graph,          \* NagaApp.state.graph
    active_node,    \* NagaApp.user_state.active_node : Option<NodeId>
    result,         \* what the last frame's evaluate_node call produced, if any
    seen,           \* observations of earlier frames on the current graph
    call            \* the last direct call of a function: its arguments and outcome

vars == <<graph, active_node, result, seen, call>>

\* Text an edit may type into a Text constant
TextVals == {"", "hi"}

NodeIds(g) == DOMAIN g.nodes
InputIds(g) == DOMAIN g.inputs
OutputIds(g) == DOMAIN g.outputs

NoResult == <<>>

\* MyResponse
SetActiveNode(n) == [kind |-> "SetActiveNode", node |-> n]
ClearActiveNode == [kind |-> "ClearActiveNode", node |-> 0]

RECURSIVE handle_responses(_, _)
handle_responses(active, responses) ==
    IF responses = <<>>
    THEN active
    ELSE handle_responses(
            IF Head(responses).kind = "SetActiveNode"
            THEN Some(Head(responses).node)
            ELSE None,
            Tail(responses))

\* Variant: the active node is evaluated without testing that the graph holds it
update_unchecked(g, responses) ==
    LET active == handle_responses(active_node, responses) IN
    /\ graph' = g
    /\ IF active # None
       THEN /\ active_node' = active
            /\ result' = <<[target |-> active[1],
                            out |-> evaluate_node(g, active[1], EmptyCtx, 1)]>>
       ELSE /\ active_node' = None
            /\ result' = NoResult

\* Variant: the outputs cache of the previous frame's evaluation is passed on
update_reuse_cache(g, responses) ==
    LET active == handle_responses(active_node, responses)
        ctx == IF result = NoResult
               THEN EmptyCtx
               ELSE [EmptyCtx EXCEPT !.cache = result[1].out.ctx.cache]
    IN
    /\ graph' = g
    /\ IF active # None /\ active[1] \in NodeIds(g)
       THEN /\ active_node' = active
            /\ result' = <<[target |-> active[1],
                            out |-> evaluate_node(g, active[1], ctx, 1)]>>
       ELSE /\ active_node' = None
            /\ result' = NoResult

\* Variant: an active node the graph no longer holds stays the active node
update_keep_missing(g, responses) ==
    LET active == handle_responses(active_node, responses) IN
    /\ graph' = g
    /\ active_node' = active
    /\ IF active # None /\ active[1] \in NodeIds(g)
       THEN result' = <<[target |-> active[1],
                         out |-> evaluate_node(g, active[1], EmptyCtx, 1)]>>
       ELSE result' = NoResult

\* The part of NagaApp::update after the panels are drawn: g is the graph the
\* frame's edits left behind, responses the user responses the editor returned.
update(g, responses) ==
    LET active == handle_responses(active_node, responses) IN
    /\ graph' = g
    /\ IF active # None /\ active[1] \in NodeIds(g)
       THEN /\ active_node' = active
            /\ result' = <<[target |-> active[1],
                            out |-> evaluate_node(g, active[1], EmptyCtx, 1)]>>
       ELSE /\ active_node' = None
            /\ result' = NoResult

\* The "add" button of the side panel
add_button(g) ==
    LET text == g.next_node
        g1 == add_node(g, "Text")
        scaffold == g1.next_node
        g2 == add_node(g1, "Scaffold")
        out == get_output(g2, text, "widget").id
        inp == get_input(g2, scaffold, "body").id
    IN add_connection(g2, out, inp)

\* MyValueType::value_widget: what one drag or keystroke can turn a constant into
Edits(v) ==
    CASE v.tag = "Vec2" ->
            {Vec2(x, v.num[2]) : x \in 0..MaxCoord}
                \cup {Vec2(v.num[1], y) : y \in 0..MaxCoord}
      [] v.tag = "Scalar" -> {Scalar(x) : x \in 0..MaxScalar}
      [] v.tag = "Widget" -> {v}
      [] v.tag = "Text" -> {Text(t) : t \in TextVals}

Edited(g) == {i \in InputIds(g) : g.inputs[i].value # Scalar(0)
                                   /\ g.inputs[i].value # Vec2(0, 0)
                                   /\ g.inputs[i].value # Widget(EmptyDoc)
                                   /\ g.inputs[i].value # Text("")}

\* The templates the node finder offers in Spec (a subset of all_kinds that
\* keeps one template of every port shape); SpecEval draws from all of them.
MenuKinds == {"MakeScalar", "AddScalar", "MakeVector", "Scaffold", "Text"}

\* What a frame's evaluation showed: target, outcome and final cache
Observation(res) ==
    IF res = NoResult
    THEN <<>>
    ELSE <<[target |-> res[1].target, status |-> res[1].out.status,
            value |-> res[1].out.value, err |-> res[1].out.err,
            cache |-> res[1].out.ctx.cache]>>

\* seen lists, in order, the observations made since the graph last changed
Record ==
    /\ seen' = (IF graph' = graph THEN seen ELSE <<>>) \o Observation(result')
    /\ Len(seen') <= MaxSeen

Init ==
    /\ graph = EmptyGraph
    /\ active_node = None
    /\ result = NoResult
    /\ seen = <<>>
    /\ call = <<>>

AddClicked ==
    /\ graph.next_node + 1 <= MaxNodes
    /\ update(add_button(graph), <<>>)
    /\ UNCHANGED <<seen, call>>

CreateNode(t) ==
    /\ graph.next_node <= MaxNodes
    /\ update(add_node(graph, t), <<>>)
    /\ UNCHANGED <<seen, call>>

ConnectEvent(o, i) ==
    /\ Cardinality(DOMAIN graph.connections \cup {i}) <= MaxConnects
    /\ update(add_connection(graph, o, i), <<>>)
    /\ UNCHANGED <<seen, call>>

DeleteNode(n) ==
    /\ update(remove_node(graph, n), <<>>)
    /\ UNCHANGED <<seen, call>>

\* MyNodeData::bottom_ui: the button of a node that is not the active one
set_active_clicked(n) ==
    /\ active_node # Some(n)
    /\ update(graph, <<SetActiveNode(n)>>)

\* MyNodeData::bottom_ui: the button of the active node
clear_active_clicked ==
    /\ active_node # None
    /\ active_node[1] \in NodeIds(graph)
    /\ update(graph, <<ClearActiveNode>>)

SetActive(n) == set_active_clicked(n) /\ UNCHANGED <<seen, call>>

ClearActive == clear_active_clicked /\ UNCHANGED <<seen, call>>

\* Spec: the editor building and dismantling graphs from the empty one, every
\* constant at its template default.
Next ==
    \/ AddClicked
    \/ \E t \in MenuKinds : CreateNode(t)
    \/ \E o \in OutputIds(graph), i \in InputIds(graph) : ConnectEvent(o, i)
    \/ \E n \in NodeIds(graph) : DeleteNode(n)
    \/ \E n \in NodeIds(graph) : SetActive(n)
    \/ ClearActive

Spec == Init /\ [][Next]_vars

\* SpecEval: every pair of templates, the first node's output optionally feeding
\* one input of the second, with the inline constants edited and either node
\* evaluated.
ParamId(g, node_id, k) == g.nodes[node_id].inputs[k][2]

PairGraph(p, c, k) ==
    LET g == add_node(add_node(EmptyGraph, p), c) IN
    IF k = 0
    THEN g
    ELSE add_connection(g, g.nodes[1].outputs[1][2], ParamId(g, 2, k))

PairGraphs ==
    {PairGraph(p, c, 0) : p \in Templates, c \in Templates}
        \cup UNION {{PairGraph(p, c, k) :
                        k \in 1..Len(add_node(add_node(EmptyGraph, p), c).nodes[2].inputs)} :
                    p \in Templates, c \in Templates}

InitEval ==
    /\ graph \in PairGraphs
    /\ active_node = None
    /\ result = NoResult
    /\ seen = <<>>
    /\ call = <<>>

edit_value(i, v, budget) ==
    /\ v # graph.inputs[i].value
    /\ Cardinality(Edited(graph) \cup {i}) <= budget
    /\ update([graph EXCEPT !.inputs[i].value = v], <<>>)

EditValue(i, v) == edit_value(i, v, MaxEdits) /\ UNCHANGED <<seen, call>>

NextEval ==
    \/ \E i \in InputIds(graph) : \E v \in Edits(graph.inputs[i].value) : EditValue(i, v)
    \/ \E n \in NodeIds(graph) : SetActive(n)
    \/ ClearActive

SpecEval == InitEval /\ [][NextEval]_vars

\* SpecTwice: the graphs of SpecEval with fewer edits, every frame's
\* observation recorded so that repeated evaluations can be compared.
TwiceEditValue(i, v) == edit_value(i, v, MaxTwiceEdits) /\ Record /\ UNCHANGED call

TwiceSetActive(n) == set_active_clicked(n) /\ Record /\ UNCHANGED call

TwiceClearActive == clear_active_clicked /\ Record /\ UNCHANGED call

NextTwice ==
    \/ \E i \in InputIds(graph) : \E v \in Edits(graph.inputs[i].value) : TwiceEditValue(i, v)
    \/ \E n \in NodeIds(graph) : TwiceSetActive(n)
    \/ TwiceClearActive

SpecTwice == InitEval /\ [][NextTwice]_vars

\* SpecCast: the two casts of MyValueType applied to values of every variant.
CastScalars == {Scalar(x) : x \in -MaxCastScalar..MaxCastScalar}
CastVectors == {Vec2(x, y) : x, y \in -MaxCastCoord..MaxCastCoord}
CastWidgets ==
    {Widget(EmptyDoc), Widget([EmptyDoc EXCEPT !.text = <<"hi">>]),
     Widget([EmptyDoc EXCEPT !.body = <<EmptyDoc>>])}
CastTexts == {Text(t) : t \in TextVals}
CastValues == CastScalars \cup CastVectors \cup CastWidgets \cup CastTexts

TryToScalar(v) ==
    /\ call' = <<[fn |-> "try_to_scalar", arg |-> v, out |-> try_to_scalar(v)]>>
    /\ UNCHANGED <<graph, active_node, result, seen>>

TryToVec2(v) ==
    /\ call' = <<[fn |-> "try_to_vec2", arg |-> v, out |-> try_to_vec2(v)]>>
    /\ UNCHANGED <<graph, active_node, result, seen>>

NextCast ==
    \/ \E v \in CastValues : TryToScalar(v)
    \/ \E v \in CastValues : TryToVec2(v)

SpecCast == Init /\ [][NextCast]_vars

\* SpecLookup: one node whose parameters are those a template declares while
\* its user_data may name another template (Graph::add_node accepts any
\* closure), so that evaluation can ask a node for a name it does not declare.
add_node_as(g, template, built) ==
    LET node_id == g.next_node
        g1 == [g EXCEPT
                !.nodes = @ @@ (node_id :>
                    [id |-> node_id, inputs |-> <<>>, outputs |-> <<>>,
                     user_data |-> [template |-> template]]),
                !.next_node = @ + 1]
    IN build_node(g1, built, node_id)

LookupGraphs == {add_node_as(EmptyGraph, t, b) : t, b \in Templates}

\* The parameter names of the templates, and one no template declares
ParamNames ==
    {"A", "B", "scalar", "vector", "v1", "v2", "x", "y", "value", "body",
     "header", "text", "out", "widget", "Z"}

InitLookup ==
    /\ graph \in LookupGraphs
    /\ active_node = None
    /\ result = NoResult
    /\ seen = <<>>
    /\ call = <<>>

GetInput(n, name) ==
    /\ call' = <<[fn |-> "get_input", arg |-> <<n, name>>,
                  out |-> get_input(graph, n, name)]>>
    /\ UNCHANGED <<graph, active_node, result, seen>>

GetOutput(n, name) ==
    /\ call' = <<[fn |-> "get_output", arg |-> <<n, name>>,
                  out |-> get_output(graph, n, name)]>>
    /\ UNCHANGED <<graph, active_node, result, seen>>

EvaluateInput(n, name) ==
    /\ call' = <<[fn |-> "evaluate_input", arg |-> <<n, name>>,
                  out |-> evaluate_input(graph, n, name, EmptyCtx, 1)]>>
    /\ UNCHANGED <<graph, active_node, result, seen>>

EvaluateNode(n) ==
    /\ call' = <<[fn |-> "evaluate_node", arg |-> <<n, "">>,
                  out |-> evaluate_node(graph, n, EmptyCtx, 1)]>>
    /\ UNCHANGED <<graph, active_node, result, seen>>

NextLookup ==
    \/ \E n \in NodeIds(graph), name \in ParamNames : GetInput(n, name)
    \/ \E n \in NodeIds(graph), name \in ParamNames : GetOutput(n, name)
    \/ \E n \in NodeIds(graph), name \in ParamNames : EvaluateInput(n, name)
    \/ \E n \in NodeIds(graph) : EvaluateNode(n)

SpecLookup == InitLookup /\ [][NextLookup]_vars

\* SpecConnect: add_connection called on graphs of three unconnected nodes,
\* for every output and input, connected or not.
ConnectKinds == {"MakeScalar", "Scaffold"}

ConnectGraphs ==
    {add_node(add_node(add_node(EmptyGraph, p), q), c) : p, q, c \in ConnectKinds}

InitConnect ==
    /\ graph \in ConnectGraphs
    /\ active_node = None
    /\ result = NoResult
    /\ seen = <<>>
    /\ call = <<>>

AddConnection(o, i) ==
    /\ Cardinality(DOMAIN graph.connections \cup {i}) <= MaxConnects
    /\ graph' = add_connection(graph, o, i)
    /\ call' = <<[fn |-> "add_connection", arg |-> <<o, i>>,
                  out |-> graph.connections]>>
    /\ UNCHANGED <<active_node, result, seen>>

NextConnect ==
    \E o \in OutputIds(graph), i \in InputIds(graph) : AddConnection(o, i)

SpecConnect == InitConnect /\ [][NextConnect]_vars

\* SpecCache: evaluate_node called on the two-node graphs of SpecEval with a
\* cache the caller filled beforehand, for any of the graph's outputs.
StaleDoc == [EmptyDoc EXCEPT !.text = <<"stale">>]
StaleVals == {Scalar(-1), Vec2(-1, -1), Widget(StaleDoc)}

Caches(g) ==
    UNION {[D -> StaleVals] : D \in SUBSET OutputIds(g)}

EvaluateWith(n, cache) ==
    /\ call' = <<[fn |-> "evaluate_node", arg |-> <<n, cache>>,
                  out |-> evaluate_node(graph, n, [EmptyCtx EXCEPT !.cache = cache], 1)]>>
    /\ UNCHANGED <<graph, active_node, result, seen>>

NextCache ==
    \E n \in NodeIds(graph), cache \in Caches(graph) : EvaluateWith(n, cache)

SpecCache == InitEval /\ [][NextCache]_vars

\* ------------------------------------------------------------ properties
\* Observations of the last frame's evaluation
Evaluated == result # NoResult
Target == result[1].target
Out == result[1].out
FinalCache == Out.ctx.cache

Owner(g, o) == g.outputs[o].node
FanOut(g, o) == Cardinality({i \in DOMAIN g.connections : g.connections[i] = o})
Count(seq, x) == Cardinality({k \in 1..Len(seq) : seq[k] = x})
\* n depends on m: m's output reaches n through one or more connections
DependsOn(g, n, m) == n \in Downstream(g, Consumers(g, {m}))

\* C1 (memoization): when an output O feeds more than one input and the
\* evaluated target depends on O's node, that node's evaluation was entered
\* exactly once during the target's evaluate_node call.
C1_ProducerEvaluatedOnce ==
    Evaluated =>
        \A o \in OutputIds(graph) :
            (FanOut(graph, o) > 1 /\ DependsOn(graph, Target, Owner(graph, o)))
                => Count(Out.ctx.evals, Owner(graph, o)) = 1

\* The input resolutions the evaluation returned, in order
Log == Out.ctx.inputs
TemplateOf(g, n) == g.nodes[n].user_data.template
InputOf(g, n, name) == get_input(g, n, name).id
Inline(g, n, name) == g.inputs[InputOf(g, n, name)].value
Upstream(g, n, name) == connection(g, InputOf(g, n, name))
\* The value evaluate_node gives a node when called on it with an empty cache
Fresh(g, n) == evaluate_node(g, n, EmptyCtx, 1)
\* The value the target's input of that name resolved to
Arg(name) ==
    Log[CHOOSE k \in 1..Len(Log) : Log[k].node = Target /\ Log[k].name = name].value

\* Scenario B: MakeVector(x=1, y=2) feeding the vector input of
\* VectorTimesScalar(scalar=3), the latter being evaluated
ScenarioB ==
    /\ Evaluated
    /\ Target = 2
    /\ TemplateOf(graph, 1) = "MakeVector"
    /\ TemplateOf(graph, 2) = "VectorTimesScalar"
    /\ Upstream(graph, 1, "x") = None /\ Inline(graph, 1, "x") = Scalar(1)
    /\ Upstream(graph, 1, "y") = None /\ Inline(graph, 1, "y") = Scalar(2)
    /\ Upstream(graph, 2, "scalar") = None /\ Inline(graph, 2, "scalar") = Scalar(3)
    /\ Upstream(graph, 2, "vector") = Some(get_output(graph, 1, "out").id)

\* C2 (input resolution): every input value evaluate_input returned is the
\* value of the upstream node's output when the input is connected, and the
\* input's inline constant when it is not; in scenario B the result is (3, 6).
C2_InputResolution ==
    Evaluated =>
        /\ \A k \in 1..Len(Log) :
            LET e == Log[k]
                up == Upstream(graph, e.node, e.name)
            IN e.status = "ok" =>
                IF up # None
                THEN /\ Fresh(graph, Owner(graph, up[1])).status = "ok"
                     /\ e.value = Fresh(graph, Owner(graph, up[1])).value
                ELSE e.value = Inline(graph, e.node, e.name)
        /\ ScenarioB => (Out.status = "ok" /\ Out.value = Vec2(3, 6))

\* A connected input resolved to a value that differs from its inline constant
C2_Witness ==
    /\ ScenarioB
    /\ Arg("vector") = Vec2(1, 2)
    /\ Inline(graph, 2, "vector") # Vec2(1, 2)

\* Scenario A: AddScalar with inline constants A=2 and B=3 is evaluated
ScenarioA ==
    /\ Evaluated
    /\ TemplateOf(graph, Target) = "AddScalar"
    /\ Upstream(graph, Target, "A") = None /\ Inline(graph, Target, "A") = Scalar(2)
    /\ Upstream(graph, Target, "B") = None /\ Inline(graph, Target, "B") = Scalar(3)

\* The pure function of an arithmetic template over the resolved inputs
Arithmetic ==
    {"AddScalar", "SubtractScalar", "AddVector", "SubtractVector",
     "VectorTimesScalar", "MakeVector", "MakeScalar"}

Expected(template) ==
    CASE template = "AddScalar" -> Scalar(Arg("A").num[1] + Arg("B").num[1])
      [] template = "SubtractScalar" -> Scalar(Arg("A").num[1] - Arg("B").num[1])
      [] template = "AddVector" ->
            Vec2(Arg("v1").num[1] + Arg("v2").num[1], Arg("v1").num[2] + Arg("v2").num[2])
      [] template = "SubtractVector" ->
            Vec2(Arg("v1").num[1] - Arg("v2").num[1], Arg("v1").num[2] - Arg("v2").num[2])
      [] template = "VectorTimesScalar" ->
            Vec2(Arg("vector").num[1] * Arg("scalar").num[1],
                 Arg("vector").num[2] * Arg("scalar").num[1])
      [] template = "MakeVector" -> Vec2(Arg("x").num[1], Arg("y").num[1])
      [] template = "MakeScalar" -> Scalar(Arg("value").num[1])

\* C3 (node functions): a successful evaluation of an arithmetic node returns
\* the template's function of the values its inputs resolved to; AddScalar
\* with inline constants 2 and 3 returns 5.
C3_NodeFunction ==
    Evaluated =>
        /\ (Out.status = "ok" /\ TemplateOf(graph, Target) \in Arithmetic)
                => Out.value = Expected(TemplateOf(graph, Target))
        /\ ScenarioA => (Out.status = "ok" /\ Out.value = Scalar(5))

\* Scenario A was evaluated, and so was a subtraction of unequal operands
C3_Witness ==
    /\ ScenarioA
    /\ Out.value = Scalar(5)

\* The resolution the target's input of that name produced
Entry(name) ==
    Log[CHOOSE k \in 1..Len(Log) : Log[k].node = Target /\ Log[k].name = name]
\* The field of a document under a key
Field(d, key) ==
    CASE key = "header" -> d.header
      [] key = "body" -> d.body
      [] key = "text" -> d.text

\* C4 (scenario C): evaluating a Scaffold whose body is fed by a Text node and
\* whose header is unconnected with the template default yields a document
\* with a body entry and no header entry.
C4_DefaultHeaderOmitted ==
    (/\ Evaluated
     /\ TemplateOf(graph, Target) = "Scaffold"
     /\ Upstream(graph, Target, "header") = None
     /\ Inline(graph, Target, "header") = Widget(EmptyDoc)
     /\ Upstream(graph, Target, "body") # None
     /\ TemplateOf(graph, Owner(graph, Upstream(graph, Target, "body")[1])) = "Text")
        => /\ Out.status = "ok"
           /\ Out.value.tag = "Widget"
           /\ Out.value.doc[1].body # <<>>
           /\ Out.value.doc[1].header = <<>>

\* C5 (composite independence): evaluating a Scaffold returns a document; for
\* header and body alike the document has the entry exactly when that input
\* resolved to a Widget value, and the entry is then that value.
C5_ScaffoldInputsIndependent ==
    (Evaluated /\ TemplateOf(graph, Target) = "Scaffold") =>
        /\ Out.status = "ok"
        /\ Out.value.tag = "Widget"
        /\ Out.value.doc[1].text = <<>>
        /\ \A name \in {"header", "body"} :
            LET e == Entry(name)
                f == Field(Out.value.doc[1], name)
            IN /\ (f # <<>>) <=> (e.status = "ok" /\ e.value.tag = "Widget")
               /\ (f # <<>>) => (f = e.value.doc)

\* A Scaffold whose header failed upstream and whose body is in the document
C5_Witness ==
    /\ Evaluated
    /\ TemplateOf(graph, Target) = "Scaffold"
    /\ Entry("header").status = "err"
    /\ Entry("body").status = "ok"
    /\ Out.value.doc[1].header = <<>>
    /\ Out.value.doc[1].body # <<>>

OutputsOf(g, n) == {g.nodes[n].outputs[k][2] : k \in 1..Len(g.nodes[n].outputs)}

\* C6 (cache after a failure): when the evaluation returned an error, every
\* cache entry belongs to an output whose node evaluates successfully on its
\* own and equals that value, and no node that fails has an entry.
C6_CacheIntactAfterError ==
    (Evaluated /\ Out.status = "err") =>
        /\ \A o \in DOMAIN FinalCache :
            /\ o \in OutputIds(graph)
            /\ Fresh(graph, Owner(graph, o)).status = "ok"
            /\ Fresh(graph, Owner(graph, o)).value = FinalCache[o]
        /\ \A k \in 1..Len(Out.ctx.evals) :
            Fresh(graph, Out.ctx.evals[k]).status = "err"
                => OutputsOf(graph, Out.ctx.evals[k]) \cap DOMAIN FinalCache = {}

\* A failed evaluation that left entries in the cache
C6_Witness ==
    /\ Evaluated
    /\ Out.status = "err"
    /\ DOMAIN FinalCache # {}
    /\ Len(Out.ctx.evals) >= 3

\* C7 (errors are values): evaluate_node on any node of the graph, and the
\* frame's own evaluation, end in a value or an error value, never in an abort.
C7_NoAbort ==
    /\ \A n \in NodeIds(graph) : Fresh(graph, n).status \in {"ok", "err"}
    /\ Evaluated => Out.status \in {"ok", "err"}

\* An evaluation returned an error value on a graph a node was removed from
C7_Witness ==
    /\ Evaluated
    /\ Out.status = "err"
    /\ Cardinality(NodeIds(graph)) < graph.next_node - 1
    /\ graph.connections # EmptyMap

\* Nodes owning an output that feeds an input of d
Producers(g, d) ==
    {Owner(g, g.connections[i]) :
        i \in {j \in DOMAIN g.connections : g.inputs[j].node = d}}
\* Inputs of d fed by an output of n
FedBy(g, d, n) ==
    {i \in DOMAIN g.connections : g.inputs[i].node = d /\ Owner(g, g.connections[i]) = n}
NameOf(g, i) ==
    LET ps == g.nodes[g.inputs[i].node].inputs IN
    ps[CHOOSE k \in 1..Len(ps) : ps[k][2] = i][1]

\* C8 as stated (scenario E): a frame that removes a node feeding an input of
\* the evaluated node ends with that evaluation returning an error.
C8_RemovedProducerIsError ==
    [][\A n \in NodeIds(graph) :
        (/\ n \notin NodeIds(graph')
         /\ result' # NoResult
         /\ n \in Producers(graph, result'[1].target))
            => result'[1].out.status = "err"]_vars

\* C8 as amended: such a frame leaves the inputs the removed node fed without
\* a connection, the evaluation does not abort, and every such input it
\* resolves yields the input's inline constant.
C8_RemovedProducerFallsBack ==
    [][\A n \in NodeIds(graph) :
        (/\ n \notin NodeIds(graph')
         /\ result' # NoResult
         /\ n \in Producers(graph, result'[1].target))
            => /\ result'[1].out.status \in {"ok", "err"}
               /\ \A i \in FedBy(graph, result'[1].target, n) :
                    /\ connection(graph', i) = None
                    /\ \A k \in 1..Len(result'[1].out.ctx.inputs) :
                        LET e == result'[1].out.ctx.inputs[k] IN
                        (e.node = result'[1].target /\ e.name = NameOf(graph, i))
                            => (e.status = "ok" /\ e.value = graph'.inputs[i].value)]_vars

\* The Scaffold of the add button evaluated after its Text node was removed
C8_Witness ==
    /\ Evaluated
    /\ Target = 2
    /\ NodeIds(graph) = {2}
    /\ TemplateOf(graph, 2) = "Scaffold"
    /\ Upstream(graph, 2, "body") = None
    /\ Out.status = "ok"
    /\ Entry("body").value = Inline(graph, 2, "body")

\* C9 (acyclicity): no node of the graph depends on itself.
C9_Acyclic ==
    \A n \in NodeIds(graph) : ~DependsOn(graph, n, n)

\* A chain through three nodes, with room for the connection that would close it
C9_Witness ==
    /\ Cardinality(DOMAIN graph.connections) < MaxConnects
    /\ \E o \in OutputIds(graph), i \in InputIds(graph) :
        /\ i \notin DOMAIN graph.connections
        /\ Owner(graph, o) # graph.inputs[i].node
        /\ graph.inputs[i].node \notin Producers(graph, Owner(graph, o))
        /\ would_close_cycle(graph, o, i)

Called(fn) == call # <<>> /\ call[1].fn = fn
CallArg == call[1].arg
CallOut == call[1].out

\* C11 (type round trip): try_to_scalar succeeds exactly on Scalar values and
\* try_to_vec2 exactly on Vec2 values, a success returns the payload the value
\* was built from, and a failure is an InvalidCast error.
C11_CastRoundTrip ==
    /\ Called("try_to_scalar") =>
        /\ CallOut.ok <=> CallArg.tag = "Scalar"
        /\ \A x \in -MaxCastScalar..MaxCastScalar :
                CallArg = Scalar(x) => (CallOut.ok /\ CallOut.value = x)
        /\ ~CallOut.ok => CallOut.err = InvalidCast(CallArg, "scalar")
    /\ Called("try_to_vec2") =>
        /\ CallOut.ok <=> CallArg.tag = "Vec2"
        /\ \A x, y \in -MaxCastCoord..MaxCastCoord :
                CallArg = Vec2(x, y) => (CallOut.ok /\ CallOut.value = <<x, y>>)
        /\ ~CallOut.ok => CallOut.err = InvalidCast(CallArg, "vec2")

\* A vector whose first coordinate is not zero was refused as a scalar
C11_Witness ==
    /\ Called("try_to_scalar")
    /\ CallArg.tag = "Vec2"
    /\ CallArg.num[1] # 0
    /\ ~CallOut.ok

\* Names of the inputs a node declares
InputNames(g, n) == {g.nodes[n].inputs[k][1] : k \in 1..Len(g.nodes[n].inputs)}

\* C12 (typed cast failure): when the evaluation fails because an input
\* resolved to a value of the wrong variant, the error names a node of the
\* graph and an input of that node, and that input resolved to the value the
\* error reports.
C12_CastErrorNamesInput ==
    (Evaluated /\ Out.status = "err" /\ Out.err.kind = "InvalidCast") =>
        /\ Out.err.node \in NodeIds(graph)
        /\ Out.err.name \in InputNames(graph, Out.err.node)
        /\ \E k \in 1..Len(Log) :
            /\ Log[k].node = Out.err.node
            /\ Log[k].name = Out.err.name
            /\ Log[k].status = "ok"
            /\ <<Log[k].value>> = Out.err.from

OutputNames(g, n) == {g.nodes[n].outputs[k][1] : k \in 1..Len(g.nodes[n].outputs)}
\* The templates that assemble a document from inputs that may be absent
Composite == {"Scaffold", "Text"}
\* The input resolutions a direct evaluate_node call returned
CallLog == CallOut.ctx.inputs
\* Resolutions that asked a node for an input name it does not declare
Undeclared == {k \in 1..Len(CallLog) :
                CallLog[k].name \notin InputNames(graph, CallLog[k].node)}

\* The lookups by name: a second lookup agrees with the first, a found id is a
\* parameter of that node under that name, and a name the node does not
\* declare yields NoParameterNamed and no parameter id.
LookupByName ==
    /\ Called("get_input") =>
        /\ CallOut = get_input(graph, CallArg[1], CallArg[2])
        /\ CallOut.ok <=> CallArg[2] \in InputNames(graph, CallArg[1])
        /\ CallOut.ok =>
            /\ CallOut.id \in InputIds(graph)
            /\ graph.inputs[CallOut.id].node = CallArg[1]
            /\ \E k \in 1..Len(graph.nodes[CallArg[1]].inputs) :
                    graph.nodes[CallArg[1]].inputs[k] = <<CallArg[2], CallOut.id>>
        /\ ~CallOut.ok =>
            /\ CallOut.err = NoParameterNamed(CallArg[1], CallArg[2])
            /\ CallOut.id \notin InputIds(graph)
    /\ Called("get_output") =>
        /\ CallOut = get_output(graph, CallArg[1], CallArg[2])
        /\ CallOut.ok <=> CallArg[2] \in OutputNames(graph, CallArg[1])
        /\ CallOut.ok =>
            /\ CallOut.id \in OutputIds(graph)
            /\ graph.outputs[CallOut.id].node = CallArg[1]
            /\ \E k \in 1..Len(graph.nodes[CallArg[1]].outputs) :
                    graph.nodes[CallArg[1]].outputs[k] = <<CallArg[2], CallOut.id>>
        /\ ~CallOut.ok =>
            /\ CallOut.err = NoParameterNamed(CallArg[1], CallArg[2])
            /\ CallOut.id \notin OutputIds(graph)

C14_ConnectionsFunctional ==
    /\ DOMAIN graph.connections \subseteq InputIds(graph)
    /\ \A i \in DOMAIN graph.connections : graph.connections[i] \in OutputIds(graph)
    /\ Called("add_connection") =>
        LET o == CallArg[1]
            i == CallArg[2]
            before == CallOut
        IN /\ \A j \in InputIds(graph) \ {i} :
                /\ j \in DOMAIN graph.connections <=> j \in DOMAIN before
                /\ j \in DOMAIN before => graph.connections[j] = before[j]
           /\ IF C9_Acyclic /\ Owner(graph, o) \notin
                    Downstream([graph EXCEPT !.connections =
                                    [j \in DOMAIN before \ {i} |-> before[j]]],
                               {graph.inputs[i].node})
              THEN /\ i \in DOMAIN graph.connections
                   /\ graph.connections[i] = o
                   /\ FanOut(graph, o) =
                        Cardinality({j \in DOMAIN before \ {i} : before[j] = o}) + 1
              ELSE graph.connections = before

\* A connected input was given another output, which then feeds two inputs
C14_Witness ==
    /\ Called("add_connection")
    /\ CallArg[2] \in DOMAIN CallOut
    /\ CallOut[CallArg[2]] # CallArg[1]
    /\ graph.connections[CallArg[2]] = CallArg[1]
    /\ FanOut(graph, CallArg[1]) = 2

\* C15 (cache population): a successful evaluation leaves an entry for every
\* output of the target, equal to the returned value; every connected input
\* that resolved did so to the entry of its upstream output; and no
\* evaluation aborts for want of an entry.
C15_CachePopulated ==
    Evaluated =>
        /\ Out.status # "panic"
        /\ Out.status = "ok" =>
            \A o \in OutputsOf(graph, Target) :
                o \in DOMAIN FinalCache /\ FinalCache[o] = Out.value
        /\ \A k \in 1..Len(Log) :
            LET up == Upstream(graph, Log[k].node, Log[k].name) IN
            (Log[k].status = "ok" /\ up # None) =>
                /\ up[1] \in DOMAIN FinalCache
                /\ FinalCache[up[1]] = Log[k].value

\* A node succeeded on a value it took from its upstream node's cache entry
C15_Witness ==
    /\ Evaluated
    /\ Out.status = "ok"
    /\ Cardinality(DOMAIN FinalCache) = 2
    /\ \E k \in 1..Len(Log) :
        /\ Log[k].node = Target
        /\ Log[k].status = "ok"
        /\ Upstream(graph, Target, Log[k].name) # None
        /\ Log[k].value # Inline(graph, Target, Log[k].name)

\* The cache a direct evaluate_node call was given and the one it left
Given == CallArg[2]
Left == CallOut.ctx.cache

\* Memo hit: every input connected to an output the given cache holds resolved
\* to that entry, the output's node was not evaluated, and the entry is left
\* as given.
MemoHit ==
    \A k \in 1..Len(CallLog) :
        LET up == Upstream(graph, CallLog[k].node, CallLog[k].name) IN
        (up # None /\ up[1] \in DOMAIN Given) =>
            /\ CallLog[k].status = "ok"
            /\ CallLog[k].value = Given[up[1]]
            /\ Count(CallOut.ctx.evals, Owner(graph, up[1])) = 0
            /\ Left[up[1]] = Given[up[1]]

\* C16 as stated (memo hit): hits behave as above; the target is evaluated
\* whatever the given cache holds for it, and no entry the cache was given
\* for an output of the target is left in place.
C16_TargetEntryOverwritten ==
    Called("evaluate_node") =>
        /\ MemoHit
        /\ CallOut.ctx.evals # <<>> /\ CallOut.ctx.evals[1] = CallArg[1]
        /\ \A o \in OutputsOf(graph, CallArg[1]) \cap DOMAIN Given :
            CallOut.status = "ok" /\ Left[o] = CallOut.value

\* C16 as amended: hits behave as above; the target is evaluated whatever the
\* given cache holds for it; when it succeeds its entry is the returned value,
\* and when it fails the entry the cache was given stays.
C16_TargetEntryOverwrittenOnSuccess ==
    Called("evaluate_node") =>
        /\ MemoHit
        /\ CallOut.ctx.evals # <<>> /\ CallOut.ctx.evals[1] = CallArg[1]
        /\ CallOut.status \in {"ok", "err"}
        /\ CallOut.status = "ok" =>
            \A o \in OutputsOf(graph, CallArg[1]) :
                o \in DOMAIN Left /\ Left[o] = CallOut.value
        /\ CallOut.status = "err" =>
            \A o \in OutputsOf(graph, CallArg[1]) :
                /\ o \in DOMAIN Left <=> o \in DOMAIN Given
                /\ o \in DOMAIN Given => Left[o] = Given[o]

\* A target with a stale entry of its own succeeded on a stale entry of its
\* upstream output: the former was replaced, the latter returned and kept
C16_Witness ==
    /\ Called("evaluate_node")
    /\ CallOut.status = "ok"
    /\ \E o \in OutputsOf(graph, CallArg[1]) \cap DOMAIN Given : Left[o] # Given[o]
    /\ \E k \in 1..Len(CallLog) :
        LET up == Upstream(graph, CallLog[k].node, CallLog[k].name) IN
        /\ up # None
        /\ up[1] \in DOMAIN Given
        /\ CallLog[k].value = Given[up[1]]
        /\ Fresh(graph, Owner(graph, up[1])).value # Given[up[1]]

\* Number of nodes on the longest dependency chain that ends at n
RECURSIVE LongestChain(_, _)
LongestChain(g, n) ==
    LET lens == {LongestChain(g, p) : p \in Producers(g, n)} IN
    IF lens = {}
    THEN 1
    ELSE 1 + (CHOOSE m \in lens : \A x \in lens : m >= x)

\* C17 (termination): on an acyclic graph evaluate_node returns for every
\* target, and the nesting of evaluate_node calls it reached is at most the
\* number of nodes on the longest dependency chain ending at the target.
C17_DepthBounded ==
    C9_Acyclic =>
        /\ \A n \in NodeIds(graph) :
            /\ Fresh(graph, n).status # "overflow"
            /\ Fresh(graph, n).ctx.depth <= LongestChain(graph, n)
        /\ Evaluated =>
            /\ Out.status # "overflow"
            /\ Out.ctx.depth <= LongestChain(graph, Target)

\* An evaluation that nested as deep as a chain through all three nodes
C17_Witness ==
    /\ Evaluated
    /\ C9_Acyclic
    /\ LongestChain(graph, Target) = MaxNodes
    /\ Out.ctx.depth = MaxNodes

\* The graph holds one node, built by build_node for the template it carries
FreshlyBuilt ==
    \E t \in Templates : graph = add_node(EmptyGraph, t)

\* C18 (typed defaults): the constant of every input carries the variant of
\* the input's declared data type; evaluating a freshly built, unconnected
\* node resolves each of its inputs once, to that constant, and succeeds, a
\* Scaffold's document holding both entries.
C18_DefaultsMatchDataType ==
    /\ \A i \in InputIds(graph) : graph.inputs[i].value.tag = graph.inputs[i].typ
    /\ (FreshlyBuilt /\ Called("evaluate_node")) =>
        /\ CallOut.status = "ok"
        /\ Len(CallLog) = Len(graph.nodes[CallArg[1]].inputs)
        /\ \A k \in 1..Len(CallLog) :
            /\ CallLog[k].status = "ok"
            /\ CallLog[k].value = Inline(graph, CallArg[1], CallLog[k].name)
            /\ CallLog[k].value.tag =
                    graph.inputs[InputOf(graph, CallArg[1], CallLog[k].name)].typ
        /\ TemplateOf(graph, CallArg[1]) = "Scaffold" =>
            /\ CallOut.value.doc[1].header # <<>>
            /\ CallOut.value.doc[1].body # <<>>

\* A freshly built node with a scalar and a vector input evaluated
C18_Witness ==
    /\ FreshlyBuilt
    /\ Called("evaluate_node")
    /\ TemplateOf(graph, CallArg[1]) = "VectorTimesScalar"
    /\ CallOut.status = "ok"
    /\ {CallLog[k].value.tag : k \in 1..Len(CallLog)} = {"Scalar", "Vec2"}

\* C19 (active node): in every frame at most one node is active afterwards;
\* SetActiveNode(n) makes n the active node and ClearActiveNode makes none
\* active; an evaluation is made exactly for an active node the graph holds,
\* and never aborts on a missing node; an active node the frame removed is
\* none afterwards and no evaluation is made.
C19_ActiveNode ==
    [][/\ Len(active_node') <= 1
       /\ \A n \in NodeIds(graph) :
            SetActive(n) =>
                /\ active_node' = Some(n)
                /\ result' # NoResult
                /\ result'[1].target = n
       /\ ClearActive => (active_node' = None /\ result' = NoResult)
       /\ result' # NoResult <=>
            (active_node' # None /\ active_node'[1] \in NodeIds(graph'))
       /\ result' # NoResult =>
            /\ result'[1].target = active_node'[1]
            /\ result'[1].out.status # "panic"
       /\ (active_node # None /\ active_node[1] \notin NodeIds(graph')) =>
            (active_node' = None /\ result' = NoResult)]_vars

\* A node is active and evaluated while another node has been removed and
\* no evaluation is left of it
C19_Witness ==
    /\ active_node # None
    /\ Evaluated
    /\ Target = active_node[1]
    /\ Cardinality(NodeIds(graph)) < graph.next_node - 1
    /\ Target > 1
    /\ 1 \notin NodeIds(graph)

====
